---- MODULE Spec2Model ----
(***************************************************************************)
(* Model of panda.py: the word_graph class (sentence preprocessing, term   *)
(* statistics, word graph construction, constrained k-shortest paths and   *)
(* get_compression).                                                       *)
(*                                                                         *)
(* Representation.  A token is the triple <<word, POS, weight>> of the     *)
(* code, the weight being the string the caller wrote.  A lexical label    *)
(* "word/-/POS" is the pair <<word, POS>>: no word or POS of the input     *)
(* alphabets contains the separator, so joining and splitting are exact.   *)
(* A graph node is <<label, id>>.  Sentence indices and positions are the  *)
(* 0-based numbers of the code; TLA+ sequences are 1-based, so sentence i, *)
(* position j is sentence[i+1][j+1].  A float is an exact rational         *)
(* <<numerator, denominator>> in lowest terms.                             *)
(***************************************************************************)
EXTENDS Integers, Sequences, FiniteSets, TLC

\* ------------------------------------------------------------- bounds
\* Largest number of caller tokens in one sentence list.
MaxTokens == 4
\* Largest nb_words (minimal compression length) given to the constructor.
MaxNbWords == 2
\* Largest nb_candidates given to get_compression.
MaxK == 2
\* Largest number of caller tokens in a sentence list of repeated words.
MaxBuildTokens == 7
\* Largest number of caller tokens in a sentence list of the reranker.
MaxRerankTokens == 3
\* Largest number of sentences in a list of keyphrase sentences.
MaxSharedSentences == 3
\* Largest number of turns of the while loop of undirected_TextRank.
MaxSweeps == 80

\* ------------------------------------------------- program constants
start == "-start-"
stop == "-end-"
verbs == {"VB", "VBD", "VBP", "VBZ", "VH", "VHD", "VHP", "VV", "VVD", "VVP", "VVZ"}

\* The one-character strings of the input alphabets that '(?u)^\W$' matches.
NonWordChars == {"(", ")", ",", "\""}
IsPunct(word) == word \in NonWordChars

\* str.lower() on the words of the input alphabets.
Lower(word) ==
  CASE word = "Ran" -> "ran"
    [] word = "Dog" -> "dog"
    [] word = "Part" -> "part"
    [] word = "art/NN" -> "art/nn"
    [] OTHER -> word

\* The weight strings of the input alphabets that '(\d+(\.\d+)*)$' matches.
WeightPattern == {"0", "1", "2", "3", "1.2.3"}

\* The weight strings of the input alphabets that float() converts; on the
\* other ones it raises ValueError.
IsFloat(weight) == weight \in {"0", "1", "2", "3"}

\* float() on the weight strings of the input alphabets.
Float(weight) ==
  CASE weight = "0" -> 0
    [] weight = "1" -> 1
    [] weight = "2" -> 2
    [] weight = "3" -> 3

\* Python's ordering of the strings that occur in node keys and candidates
\* (ASCII order).  No word is a prefix of another one, so the order of the
\* labels "word/-/POS" is the order of the pairs <<word, POS>>.
StrRank(s) ==
  CASE s = "\"" -> 1
    [] s = "(" -> 2
    [] s = ")" -> 3
    [] s = "," -> 4
    [] s = "-end-" -> 5
    [] s = "-start-" -> 6
    [] s = "DT" -> 7
    [] s = "JJ" -> 8
    [] s = "NN" -> 9
    [] s = "PUNCT" -> 10
    [] s = "VBD" -> 11
    [] s = "art" -> 12
    [] s = "dog" -> 13
    [] s = "part" -> 14
    [] s = "ran" -> 15
    [] s = "the" -> 16

\* ---------------------------------------------------------- rationals
RECURSIVE GCD(_, _)
GCD(a, b) == IF b = 0 THEN a ELSE GCD(b, a % b)

RNorm(n, d) == LET g == GCD(n, d) IN IF g = 0 THEN <<0, 1>> ELSE <<n \div g, d \div g>>
RAdd(x, y) == RNorm(x[1] * y[2] + y[1] * x[2], x[2] * y[2])
RLt(x, y) == x[1] * y[2] < y[1] * x[2]
RLe(x, y) == x[1] * y[2] <= y[1] * x[2]
RZero == <<0, 1>>

\* ---------------------------------------------------------- sequences
RECURSIVE SeqSum(_)
SeqSum(s) == IF s = <<>> THEN 0 ELSE Head(s) + SeqSum(Tail(s))

\* list.count(x)
Count(s, x) == Cardinality({n \in 1..Len(s) : s[n] = x})

\* del l[p], p a 0-based index
Del(s, p) == [n \in 1..(Len(s) - 1) |-> IF n <= p THEN s[n] ELSE s[n + 1]]

\* list.reverse()
Reverse(s) == [n \in 1..Len(s) |-> s[Len(s) + 1 - n]]

VARIABLES
  sentence,            \* self.sentence: the strings, then the token containers
  length,              \* self.length
  nb_words,            \* self.nb_words
  stopwords,           \* self.stopwords
  term_freq,           \* self.term_freq
  term_weight,         \* self.term_weight
  info,                \* self.graph: node -> its 'info' occurrence list
  edges,               \* self.graph: the set of directed edges
  weight,              \* self.graph: edge -> its 'weight' attribute
  mapping,             \* build_graph: mapping of the current sentence
  i,                   \* index of the sentence in work
  j,                   \* index of the token in work
  pc,                  \* position in the program
  exc,                 \* the exception that ended the program, or "none"
  nb_candidates,       \* argument of get_compression
  kshortestpaths,      \* k_shortest_paths: accepted <<path, weight>>
  orderedX,            \* k_shortest_paths: the frontier
  paths,               \* k_shortest_paths: frontier entry -> path so far
  visited,             \* k_shortest_paths: node -> times inserted - 1
  sentence_container,  \* k_shortest_paths: accepted raw sentences
  fusions,             \* get_compression: the returned list
  sentences,           \* keyphrase_reranker: self.sentences
  nbest_compressions,  \* keyphrase_reranker: self.nbest_compressions
  adj,                 \* keyphrase_reranker: self.graph, node -> neighbour -> weight
  graph_nodes,         \* undirected_TextRank: the list self.graph.nodes()
  word_scores,         \* keyphrase_reranker: self.word_scores
  current_node_scores, \* undirected_TextRank: the copy made by the last sweep
  max_node_difference, \* undirected_TextRank: max_node_difference
  sweeps,              \* undirected_TextRank: turns of the while loop so far
  keyphrase_candidates,\* keyphrase_reranker: the items of self.keyphrase_candidates
  keyphrase_scores,    \* keyphrase_reranker: self.keyphrase_scores
  cluster_keys,        \* cluster_keyphrase_candidates: the keys of clusters
  reranked_compressions\* rerank_nbest_compressions: the returned list

vars == <<sentence, length, nb_words, stopwords, term_freq, term_weight, info,
          edges, weight, mapping, i, j, pc, exc, nb_candidates, kshortestpaths,
          orderedX, paths, visited, sentence_container, fusions, sentences,
          nbest_compressions, adj, graph_nodes, word_scores, current_node_scores,
          max_node_difference, sweeps, keyphrase_candidates, keyphrase_scores,
          cluster_keys, reranked_compressions>>

graphVars == <<info, edges, weight, mapping>>
statVars == <<term_freq, term_weight>>
searchVars == <<nb_candidates, kshortestpaths, orderedX, paths, visited,
                sentence_container, fusions>>
paramVars == <<length, nb_words, stopwords>>
rankVars == <<graph_nodes, word_scores, current_node_scores, max_node_difference, sweeps>>
keyVars == <<keyphrase_candidates, keyphrase_scores, cluster_keys>>
krVars == <<sentences, nbest_compressions, adj, rankVars, keyVars, reranked_compressions>>
wgVars == <<sentence, length, nb_words, term_freq, term_weight, graphVars, j, searchVars>>

\* ------------------------------------------------------------ helpers
Unmapped == <<>>

Label(token, pos) == <<Lower(token), pos>>
Tok(s, p) == sentence[s + 1][p + 1]
TokLabel(s, p) == Label(Tok(s, p)[1], Tok(s, p)[2])
SentenceLen(s) == Len(sentence[s + 1])
Nodes == DOMAIN info

StartSentinel == <<start, start, start>>
StopSentinel == <<stop, stop, stop>>
StartNode == <<Label(start, start), 0>>
EndNode == <<Label(stop, stop), 0>>

\* --------------------------------------------------------------- input
\* The sentences a caller can write with the tokens of alphabet V: every list
\* of non-empty sentences holding at most n tokens altogether.  A sentence is
\* given as the token list that split(' ') yields, each token already cut at
\* its separators into <<word, POS, weight>>.
RECURSIVE SentenceLists(_, _)
SentenceLists(V, n) ==
  {<<>>} \cup
  UNION {{<<s>> \o rest : s \in [1..m -> V], rest \in SentenceLists(V, n - m)} : m \in 1..n}

\* a content word (a verb), a stopword, a punctuation mark
VocabMain == {<<"Ran", "VBD", "1">>, <<"the", "DT", "1">>, <<",", "PUNCT", "1">>}
\* two content words of different weights, one of them a verb, and a stopword
VocabContent == {<<"ran", "VBD", "1">>, <<"Dog", "NN", "2">>, <<"the", "DT", "1">>}
\* one word under two POS tags, a verb
VocabHomograph == {<<"ran", "VBD", "1">>, <<"dog", "NN", "1">>, <<"dog", "JJ", "2">>}
\* parentheses and quotation marks around a verb
VocabParen == {<<"ran", "VBD", "1">>, <<"(", "PUNCT", "1">>, <<")", "PUNCT", "1">>, <<"\"", "PUNCT", "1">>}

\* two content words, to be repeated within and across sentences
VocabRepeat == {<<"dog", "NN", "1">>, <<"ran", "VBD", "1">>}
\* a well-formed token, a token without weight, a token whose weight does not
\* match, a token whose weight matches and is not a number, and the empty
\* token that split(' ') yields for an empty sentence
VocabMalformed ==
  {<<"ran", "VBD", "1">>, <<"dog", "NN">>, <<"dog", "NN", "x">>, <<"dog", "NN", "1.2.3">>, <<"">>}

\* The stopword lists the external loader may supply.
StopwordSets == {{"the"}}

EmptyFun == [x \in {} |-> 0]

\* The dictionary clusters of cluster_keyphrase_candidates is kept as the
\* list of its keys in the order they were put in and the list of its keys
\* in the order it iterates.
NoClusters == [inserted |-> <<>>, iterated |-> <<>>]

\* no keyphrase_reranker object has been made
NoReranker ==
  /\ sentences = <<>>
  /\ nbest_compressions = <<>>
  /\ adj = EmptyFun
  /\ graph_nodes = <<>>
  /\ word_scores = EmptyFun
  /\ current_node_scores = EmptyFun
  /\ max_node_difference = 0
  /\ sweeps = 0
  /\ keyphrase_candidates = <<>>
  /\ keyphrase_scores = EmptyFun
  /\ cluster_keys = NoClusters
  /\ reranked_compressions = <<>>

\* the state after "self.term_weight = {}" for the sentence lists S, the
\* values NW of nb_words and the stopword lists SW
InitOf(S, NW, SW) ==
  /\ sentence \in S
  /\ length = Len(sentence)
  /\ nb_words \in NW
  /\ stopwords \in SW
  /\ term_freq = EmptyFun
  /\ term_weight = EmptyFun
  /\ info = EmptyFun
  /\ edges = {}
  /\ weight = EmptyFun
  /\ mapping = <<>>
  /\ i = 0
  /\ j = 0
  /\ pc = "pre_process"
  /\ exc = "none"
  /\ nb_candidates = 0
  /\ kshortestpaths = <<>>
  /\ orderedX = <<>>
  /\ paths = EmptyFun
  /\ visited = EmptyFun
  /\ sentence_container = {}
  /\ fusions = <<>>
  /\ NoReranker

InitWith(V, SW) == InitOf(SentenceLists(V, MaxTokens), 1..MaxNbWords, SW)

Init == InitWith(VocabMain, StopwordSets)

\* ------------------------------------------------ pre_process_sentences
\* re.match("^(.+)/(.+)/(\d+(\.\d+)*)$", w) on a token w given as the list of
\* its fields, the pieces between its separators (the tokens of the input
\* alphabets have at most three fields, so a match cuts w at its separators).
Matches_AnyWeight(w) == Len(w) = 3 /\ w[1] # "" /\ w[2] # ""
Matches(w) == Len(w) = 3 /\ w[1] # "" /\ w[2] # "" /\ w[3] \in WeightPattern

\* One turn of the loop over the sentences: the tokens are lowercased and
\* put between the two sentinels.  On a token without a match m is None and
\* m.group(1) raises AttributeError; self.sentence[i] is not yet assigned.
Container(words) ==
  <<StartSentinel>>
    \o [n \in 1..Len(words) |-> <<Lower(words[n][1]), words[n][2], words[n][3]>>]
    \o <<StopSentinel>>

PreProcess ==
  /\ pc = "pre_process"
  /\ i < length
  /\ IF \A n \in 1..Len(sentence[i + 1]) : Matches(sentence[i + 1][n])
     THEN /\ sentence' = [sentence EXCEPT ![i + 1] = Container(sentence[i + 1])]
          /\ i' = i + 1
          /\ UNCHANGED <<pc, exc>>
     ELSE /\ pc' = "error"
          /\ exc' = "AttributeError"
          /\ UNCHANGED <<sentence, i>>
  /\ UNCHANGED <<krVars, paramVars, statVars, graphVars, j, searchVars>>

\* --------------------------------------------------- compute_statistics
Positions == UNION {{<<s, p>> : p \in 0..(SentenceLen(s) - 1)} : s \in 0..(length - 1)}

IsSentinelWeight(w) == w = start \/ w = stop

\* the list weights[node]: the float of every non-sentinel occurrence
WeightsOf(node, s) ==
  [n \in 1..Len(sentence[s + 1]) |->
     IF TokLabel(s, n - 1) = node /\ ~IsSentinelWeight(Tok(s, n - 1)[3])
     THEN Float(Tok(s, n - 1)[3]) ELSE 0]

TermFreq ==
  [node \in {TokLabel(x[1], x[2]) : x \in Positions} |->
     Cardinality({x \in Positions : TokLabel(x[1], x[2]) = node})]

TermWeight ==
  [node \in {TokLabel(x[1], x[2]) : x \in {y \in Positions : ~IsSentinelWeight(Tok(y[1], y[2])[3])}} |->
     SeqSum([s \in 1..length |-> SeqSum(WeightsOf(node, s - 1))])]

\* float(weight) raises ValueError inside the loop over the sentences, before
\* self.term_freq and self.term_weight are filled.
ComputeStatistics ==
  /\ pc = "pre_process"
  /\ i = length
  /\ IF \A x \in Positions : IsSentinelWeight(Tok(x[1], x[2])[3]) \/ IsFloat(Tok(x[1], x[2])[3])
     THEN /\ term_freq' = TermFreq
          /\ term_weight' = TermWeight
          /\ i' = 0
          /\ j' = 0
          /\ pc' = IF length = 0 THEN "weights" ELSE "pass1"
          /\ mapping' = IF length = 0 THEN <<>> ELSE [n \in 1..SentenceLen(0) |-> Unmapped]
          /\ UNCHANGED exc
     ELSE /\ pc' = "error"
          /\ exc' = "ValueError"
          /\ UNCHANGED <<term_freq, term_weight, i, j, mapping>>
  /\ UNCHANGED <<krVars, sentence, paramVars, info, edges, weight, searchVars>>

\* ---------------------------------------------------------- build_graph
\* ambiguous_nodes: the number of variants (node, 0), (node, 1), ... present
ambiguous_nodes(node) ==
  CHOOSE k \in 0..Cardinality(Nodes) :
    /\ <<node, k>> \notin Nodes
    /\ \A m \in 0..(k - 1) : <<node, m>> \in Nodes

\* "i in ids": the node already has an occurrence of sentence s
InSentence_Never(n, s) == FALSE
InSentence(n, s) == \E x \in 1..Len(info[n]) : info[n][x][1] = s

\* graph.add_node((node, k), info=[(i, j)])
AddNode(n, s, p) == [x \in Nodes \cup {n} |-> IF x = n THEN <<<<s, p>>>> ELSE info[x]]
\* graph.node[(node, k)]['info'].append((i, j))
Attach(n, s, p) == [info EXCEPT ![n] = Append(@, <<s, p>>)]

\* get_directed_context.  Pass 2 calls it when no occurrence of a variant
\* ends its sentence, passes 3 and 4 for the variants of a stopword or a
\* punctuation mark, which the sentinels are not; no input alphabet has a
\* token with the label of the start sentinel; so off-1 and off+1 are
\* positions of the sentence.
get_directed_context(node, k, dir, non_pos) ==
  LET occ == info[<<node, k>>]
      prev == [n \in 1..Len(occ) |-> TokLabel(occ[n][1], occ[n][2] - 1)]
      next == [n \in 1..Len(occ) |-> TokLabel(occ[n][1], occ[n][2] + 1)]
      keep(l) == l[1] \notin stopwords
      l_context == IF non_pos THEN SelectSeq(prev, keep) ELSE prev
      r_context == IF non_pos THEN SelectSeq(next, keep) ELSE next
  IN  CASE dir = "left" -> l_context
        [] dir = "right" -> r_context
        [] OTHER -> l_context \o r_context

\* max_index: 0-based index of the first largest element
RECURSIVE MaxIndexFrom(_, _, _, _)
MaxIndexFrom(l, z, max_val, max_ind) ==
  IF z >= Len(l) THEN max_ind
  ELSE IF l[z + 1] > max_val THEN MaxIndexFrom(l, z + 1, l[z + 1], z)
       ELSE MaxIndexFrom(l, z + 1, max_val, max_ind)

max_index(l) == IF Len(l) = 1 THEN 0 ELSE MaxIndexFrom(l, 1, l[1], 0)

\* the context-overlap score of variant l of node for the token at (s, p)
Overlap(node, l, s, p, non_pos) ==
  Count(get_directed_context(node, l, "left", non_pos), TokLabel(s, p - 1))
    + Count(get_directed_context(node, l, "right", non_pos), TokLabel(s, p + 1))

\* Advance the loop "for j in range(sentence_len)" of a pass.
NextToken(next_pc) ==
  IF j + 1 < SentenceLen(i)
  THEN j' = j + 1 /\ pc' = pc
  ELSE j' = 0 /\ pc' = next_pc

IsSkippedContent(token) == token \in stopwords \/ IsPunct(token)

\* pass 1: words with no candidate node or an unambiguous one
Pass1Step ==
  /\ pc = "pass1"
  /\ LET token == Tok(i, j)[1]
         node == Label(token, Tok(i, j)[2])
         k == ambiguous_nodes(node)
     IN  IF IsSkippedContent(token) \/ k > 1
         THEN UNCHANGED <<info, mapping>>
         ELSE IF k = 0
         THEN /\ info' = AddNode(<<node, 0>>, i, j)
              /\ mapping' = [mapping EXCEPT ![j + 1] = <<node, 0>>]
         ELSE IF ~InSentence(<<node, 0>>, i)
         THEN /\ info' = Attach(<<node, 0>>, i, j)
              /\ mapping' = [mapping EXCEPT ![j + 1] = <<node, 0>>]
         ELSE /\ info' = AddNode(<<node, 1>>, i, j)
              /\ mapping' = [mapping EXCEPT ![j + 1] = <<node, 1>>]
  /\ NextToken("pass2")
  /\ UNCHANGED <<krVars, sentence, paramVars, statVars, edges, weight, i, exc, searchVars>>

\* pass 2, the loop "while not found": <<found, selected>> at its end
RECURSIVE SelectCandidate(_, _, _, _)
SelectCandidate(ambinode_overlap, ambinode_frequency, node, s) ==
  LET best == max_index(ambinode_overlap)
      selected == IF ambinode_overlap[best + 1] = 0
                  THEN max_index(ambinode_frequency) ELSE best
  IN  IF ~InSentence(<<node, selected>>, s) THEN <<TRUE, selected>>
      ELSE IF Len(ambinode_overlap) = 1 THEN <<FALSE, selected>>
      ELSE SelectCandidate(Del(ambinode_overlap, selected),
                           Del(ambinode_frequency, selected), node, s)

\* an occurrence of n is the last token of its sentence: for it
\* get_directed_context reads self.sentence[sid][off+1] past the end
EndsSentence(n) ==
  \E x \in 1..Len(info[n]) : info[n][x][2] + 1 >= SentenceLen(info[n][x][1])

\* pass 2: content words with several candidate nodes.  The neighbours
\* self.sentence[i][j-1] and self.sentence[i][j+1] are read first, then the
\* contexts of all the variants; a read past the end raises IndexError.
Pass2Step ==
  /\ pc = "pass2"
  /\ LET token == Tok(i, j)[1]
         node == Label(token, Tok(i, j)[2])
         k == ambiguous_nodes(node)
         ambinode_overlap == [l \in 1..k |-> Overlap(node, l - 1, i, j, FALSE)]
         ambinode_frequency == [l \in 1..k |-> Len(info[<<node, l - 1>>])]
     IN  IF IsSkippedContent(token) \/ mapping[j + 1] # Unmapped
         THEN UNCHANGED <<info, mapping, exc>> /\ NextToken("pass3")
         ELSE IF j + 1 >= SentenceLen(i) \/ \E l \in 0..(k - 1) : EndsSentence(<<node, l>>)
         THEN /\ pc' = "error"
              /\ exc' = "IndexError"
              /\ UNCHANGED <<info, mapping, j>>
         ELSE LET r == SelectCandidate(ambinode_overlap, ambinode_frequency, node, i)
              IN  /\ IF r[1]
                     THEN /\ info' = Attach(<<node, r[2]>>, i, j)
                          /\ mapping' = [mapping EXCEPT ![j + 1] = <<node, r[2]>>]
                     ELSE /\ info' = AddNode(<<node, k>>, i, j)
                          /\ mapping' = [mapping EXCEPT ![j + 1] = <<node, k>>]
                  /\ NextToken("pass3")
                  /\ UNCHANGED exc
  /\ UNCHANGED <<krVars, sentence, paramVars, statVars, edges, weight, i, searchVars>>

\* passes 3 and 4 with ">=" in place of ">" in the test of the overlap
AttachByOverlap_AtThreshold(non_pos, threshold) ==
  LET node == Label(Tok(i, j)[1], Tok(i, j)[2])
      k == ambiguous_nodes(node)
      ambinode_overlap == [l \in 1..k |-> Overlap(node, l - 1, i, j, non_pos)]
      selected == max_index(ambinode_overlap)
  IN  IF k = 0
      THEN /\ info' = AddNode(<<node, 0>>, i, j)
           /\ mapping' = [mapping EXCEPT ![j + 1] = <<node, 0>>]
      ELSE IF ~InSentence(<<node, selected>>, i) /\ ambinode_overlap[selected + 1] >= threshold
      THEN /\ info' = Attach(<<node, selected>>, i, j)
           /\ mapping' = [mapping EXCEPT ![j + 1] = <<node, selected>>]
      ELSE /\ info' = AddNode(<<node, k>>, i, j)
           /\ mapping' = [mapping EXCEPT ![j + 1] = <<node, k>>]

\* passes 3 and 4 after the skip test: reuse the best-overlap variant when it
\* has no occurrence of this sentence and its overlap exceeds the threshold
AttachByOverlap(non_pos, threshold) ==
  LET node == Label(Tok(i, j)[1], Tok(i, j)[2])
      k == ambiguous_nodes(node)
      ambinode_overlap == [l \in 1..k |-> Overlap(node, l - 1, i, j, non_pos)]
      selected == max_index(ambinode_overlap)
  IN  IF k = 0
      THEN /\ info' = AddNode(<<node, 0>>, i, j)
           /\ mapping' = [mapping EXCEPT ![j + 1] = <<node, 0>>]
      ELSE IF ~InSentence(<<node, selected>>, i) /\ ambinode_overlap[selected + 1] > threshold
      THEN /\ info' = Attach(<<node, selected>>, i, j)
           /\ mapping' = [mapping EXCEPT ![j + 1] = <<node, selected>>]
      ELSE /\ info' = AddNode(<<node, k>>, i, j)
           /\ mapping' = [mapping EXCEPT ![j + 1] = <<node, k>>]

\* pass 3: stopwords
Pass3Step ==
  /\ pc = "pass3"
  /\ IF Tok(i, j)[1] \notin stopwords
     THEN UNCHANGED <<info, mapping>>
     ELSE AttachByOverlap(TRUE, 0)
  /\ NextToken("pass4")
  /\ UNCHANGED <<krVars, sentence, paramVars, statVars, edges, weight, i, exc, searchVars>>

\* pass 4: punctuation marks
Pass4Step ==
  /\ pc = "pass4"
  /\ IF ~IsPunct(Tok(i, j)[1])
     THEN UNCHANGED <<info, mapping>>
     ELSE AttachByOverlap(FALSE, 1)
  /\ NextToken("edges")
  /\ UNCHANGED <<krVars, sentence, paramVars, statVars, edges, weight, i, exc, searchVars>>

\* the edges mapping[j-1] -> mapping[j] of the sentence, then the next sentence
AddEdges ==
  /\ pc = "edges"
  /\ edges' = edges \cup {<<mapping[n], mapping[n + 1]>> : n \in 1..(Len(mapping) - 1)}
  /\ i' = i + 1
  /\ j' = 0
  /\ IF i + 1 < length
     THEN /\ pc' = "pass1"
          /\ mapping' = [n \in 1..SentenceLen(i + 1) |-> Unmapped]
     ELSE /\ pc' = "weights"
          /\ UNCHANGED mapping
  /\ UNCHANGED <<krVars, sentence, paramVars, statVars, info, weight, exc, searchVars>>

\* ------------------------------------------------------ get_edge_weight
\* the distances taken from node2 back to node1
Distances_Backward(node1, node2, s) ==
  {info[node1][x][2] - info[node2][y][2] :
     <<x, y>> \in {z \in (1..Len(info[node1])) \X (1..Len(info[node2])) :
                     /\ info[node1][z[1]][1] = s
                     /\ info[node2][z[2]][1] = s
                     /\ info[node1][z[1]][2] - info[node2][z[2]][2] > 0}}

\* the positive distances pos(node2) - pos(node1) within sentence s
Distances(node1, node2, s) ==
  {info[node2][y][2] - info[node1][x][2] :
     <<x, y>> \in {z \in (1..Len(info[node1])) \X (1..Len(info[node2])) :
                     /\ info[node1][z[1]][1] = s
                     /\ info[node2][z[2]][1] = s
                     /\ info[node1][z[1]][2] - info[node2][z[2]][2] < 0}}

SetMin(S) == CHOOSE x \in S : \A y \in S : x <= y

\* sum(diff) over the sentences s, s+1, ..., length-1
RECURSIVE DiffSum(_, _, _)
DiffSum(node1, node2, s) ==
  IF s >= length THEN RZero
  ELSE LET d == Distances(node1, node2, s)
           term == IF d # {} THEN <<1, SetMin(d)>> ELSE RZero
       IN  RAdd(term, DiffSum(node1, node2, s + 1))

\* the weight a label has in term_weight, 0.0 when it has none
LabelWeight(key) == IF key \in DOMAIN term_weight THEN term_weight[key] ELSE 0

DivisionByZero == <<1, 0>>

get_edge_weight(node1, node2) ==
  LET weight1 == LabelWeight(node1[1])
      weight2 == LabelWeight(node2[1])
      sum == DiffSum(node1, node2, 0)
  IN  IF weight1 = 0 \/ weight2 = 0 THEN RZero
      ELSE IF sum[1] = 0 THEN DivisionByZero
      ELSE RNorm((weight1 + weight2) * sum[2], sum[1] * weight1 * weight2)

\* the loop over graph.edges_iter() that ends build_graph
ComputeWeights ==
  /\ pc = "weights"
  /\ LET computed == [e \in edges |-> get_edge_weight(e[1], e[2])]
     IN  IF \E e \in edges : computed[e] = DivisionByZero
         THEN /\ pc' = "error"
              /\ exc' = "ZeroDivisionError"
              /\ UNCHANGED weight
         ELSE /\ pc' = "built"
              /\ weight' = computed
              /\ UNCHANGED exc
  /\ UNCHANGED <<krVars, sentence, paramVars, statVars, info, edges, mapping, i, j, searchVars>>

\* ------------------------------------------------------ Python orderings
LabelLt(a, b) ==
  \/ StrRank(a[1]) < StrRank(b[1])
  \/ a[1] = b[1] /\ StrRank(a[2]) < StrRank(b[2])

\* node keys compared on the variant index before the label
NodeLt_IndexFirst(n, m) == n[2] < m[2] \/ (n[2] = m[2] /\ LabelLt(n[1], m[1]))
NodeLt(n, m) == LabelLt(n[1], m[1]) \/ (n[1] = m[1] /\ n[2] < m[2])

\* frontier entries (w, node, id)
EntryLt_WeightOnly(a, b) == RLt(a[1], b[1])
EntryLt(a, b) ==
  \/ RLt(a[1], b[1])
  \/ a[1] = b[1] /\ NodeLt(a[2], b[2])
  \/ a[1] = b[1] /\ a[2] = b[2] /\ a[3] < b[3]

\* lists of (word, tag) tuples
RECURSIVE WordListLt(_, _)
WordListLt(a, b) ==
  IF a = <<>> THEN b # <<>>
  ELSE IF b = <<>> THEN FALSE
  ELSE IF Head(a) = Head(b) THEN WordListLt(Tail(a), Tail(b))
  ELSE LabelLt(Head(a), Head(b))

\* candidates (cumulative weight, word list)
FusionLt(a, b) == RLt(a[1], b[1]) \/ (a[1] = b[1] /\ WordListLt(a[2], b[2]))

\* bisect.insort(l, x) on a sorted list: x goes before the first greater
\* element, whose index is the least of greater (after the last one if none)
InsertBefore(l, x, greater) ==
  LET at == IF greater = {} THEN Len(l) + 1 ELSE SetMin(greater)
  IN  SubSeq(l, 1, at - 1) \o <<x>> \o SubSeq(l, at, Len(l))

\* bisect.insort(orderedX, (w, node, id))
InsortEntry_Append(l, x) == Append(l, x)
InsortEntry(l, x) == InsertBefore(l, x, {n \in 1..Len(l) : EntryLt(x, l[n])})

\* bisect.insort(fusions, (weight, sentence))
InsortFusion(l, x) == InsertBefore(l, x, {n \in 1..Len(l) : FusionLt(x, l[n])})

\* ----------------------------------------------------- k_shortest_paths
\* The checks on a path that reached the end node.  shortestpath is the path
\* so far, last node first and the start node last; the loop
\* "for i in range(len(shortestpath) - 1)" leaves the start node out.
WordOf(n) == n[1][1]
TagOf(n) == n[1][2]

\* the indices the loop runs over
Checked(shortestpath) == 1..(Len(shortestpath) - 1)

nb_verbs_One(shortestpath) == 1
nb_verbs(shortestpath) ==
  Cardinality({n \in Checked(shortestpath) : TagOf(shortestpath[n]) \in verbs})

path_length_All(shortestpath) == Cardinality(Checked(shortestpath))
path_length(shortestpath) ==
  Cardinality({n \in Checked(shortestpath) : ~IsPunct(WordOf(shortestpath[n]))})

\* the branches '(' , ')' and '"' are taken for punctuation marks only
WordCount(shortestpath, mark) ==
  Cardinality({n \in Checked(shortestpath) :
                 IsPunct(WordOf(shortestpath[n])) /\ WordOf(shortestpath[n]) = mark})

paired_parentheses(shortestpath) ==
  WordCount(shortestpath, ")") - WordCount(shortestpath, "(")
quotation_mark_number(shortestpath) == WordCount(shortestpath, "\"")

\* the words joined by ' ' (no word holds a space): the list of the words
raw_sentence(shortestpath) == [n \in 1..(Len(shortestpath) - 1) |-> WordOf(shortestpath[n])]

has_key_Never(container, raw) == FALSE
has_key(container, raw) == raw \in container

IsAccepted(shortestpath, container) ==
  /\ nb_verbs(shortestpath) > 0
  /\ path_length(shortestpath) >= nb_words
  /\ paired_parentheses(shortestpath) = 0
  /\ quotation_mark_number(shortestpath) % 2 = 0
  /\ ~has_key(container, raw_sentence(shortestpath))

\* "if node in shortestpath: continue"
InPath_Never(node, shortestpath) == FALSE
InPath(node, shortestpath) == \E n \in 1..Len(shortestpath) : shortestpath[n] = node

\* The body of "for node in self.graph.neighbors(shortest[1])" for one node;
\* st holds kshortestpaths, orderedX, paths, visited and sentence_container.
VisitNeighbor(st, shortest, shortestpath, node) ==
  LET w == RAdd(shortest[1], weight[<<shortest[2], node>>])
  IN  IF InPath(node, shortestpath) THEN st
      ELSE IF node = EndNode
      THEN IF IsAccepted(shortestpath, st.sentence_container)
           THEN [st EXCEPT
                   !.kshortestpaths = Append(@, <<Reverse(<<node>> \o shortestpath), w>>),
                   !.sentence_container = @ \cup {raw_sentence(shortestpath)}]
           ELSE st
      ELSE LET id == IF node \in DOMAIN st.visited THEN st.visited[node] + 1 ELSE 0
               entry == <<w, node, id>>
           IN  [st EXCEPT
                  !.visited = [n \in DOMAIN st.visited \cup {node} |->
                                 IF n = node THEN id ELSE st.visited[n]],
                  !.orderedX = InsortEntry(@, entry),
                  !.paths = [e \in DOMAIN st.paths \cup {entry} |->
                               IF e = entry THEN <<node>> \o shortestpath ELSE st.paths[e]]]

\* The whole for loop over the list graph.neighbors() returned.
RECURSIVE VisitNeighbors(_, _, _, _)
VisitNeighbors(st, shortest, shortestpath, todo) ==
  IF todo = <<>> THEN st
  ELSE VisitNeighbors(VisitNeighbor(st, shortest, shortestpath, Head(todo)),
                      shortest, shortestpath, Tail(todo))

\* the successors of n
Neighbors(n) == {m \in Nodes : <<n, m>> \in edges}

\* The lists that hold every element of S once.  graph.neighbors(n) is the
\* list of the keys of a dictionary, in the order of its hash table: one of
\* these lists, which one is not fixed by the language.
RECURSIVE Orders(_)
Orders(S) ==
  IF S = {} THEN {<<>>}
  ELSE UNION {{<<x>> \o o : o \in Orders(S \ {x})} : x \in S}

\* get_compression(nb_candidates) up to the first test of the while loop
GetCompression(k) ==
  /\ pc = "built"
  /\ nb_candidates' = k
  /\ kshortestpaths' = <<>>
  /\ orderedX' = <<<<RZero, StartNode, 0>>>>
  /\ paths' = [e \in {<<RZero, StartNode, 0>>} |-> <<StartNode>>]
  /\ visited' = [n \in {StartNode} |-> 0]
  /\ sentence_container' = {}
  /\ pc' = "search"
  /\ UNCHANGED <<krVars, sentence, paramVars, statVars, graphVars, i, j, exc, fusions>>

WhileCondition == Len(kshortestpaths) < nb_candidates /\ Len(orderedX) > 0

\* One turn of the while loop: pop the shortest entry and visit its
\* successors.  graph.neighbors raises NetworkXError for a node that is not
\* in the graph.
\* the containers after "shortest = orderedX.pop(0)" and "del paths[shortest]"
Popped ==
  [kshortestpaths |-> kshortestpaths,
   orderedX |-> Tail(orderedX),
   paths |-> [e \in DOMAIN paths \ {Head(orderedX)} |-> paths[e]],
   visited |-> visited,
   sentence_container |-> sentence_container]

KspIterate ==
  /\ pc = "search"
  /\ WhileCondition
  /\ \E neighbors \in Orders(Neighbors(Head(orderedX)[2])) :
     LET shortest == Head(orderedX)
         shortestpath == paths[shortest]
         st == IF shortest[2] \in Nodes
               THEN VisitNeighbors(Popped, shortest, shortestpath, neighbors)
               ELSE Popped
     IN  /\ kshortestpaths' = st.kshortestpaths
         /\ orderedX' = st.orderedX
         /\ paths' = st.paths
         /\ visited' = st.visited
         /\ sentence_container' = st.sentence_container
         /\ IF shortest[2] \in Nodes
            THEN UNCHANGED <<pc, exc>>
            ELSE pc' = "error" /\ exc' = "NetworkXError"
  /\ UNCHANGED <<krVars, sentence, paramVars, statVars, graphVars, i, j, nb_candidates, fusions>>

\* ------------------------------------------------------ get_compression
\* the (word, tag) list of nodes[1 .. len-2]
WordList_WithStart(nodes) == [n \in 1..(Len(nodes) - 1) |-> <<WordOf(nodes[n]), TagOf(nodes[n])>>]
WordList(nodes) == [n \in 1..(Len(nodes) - 2) |-> <<WordOf(nodes[n + 1]), TagOf(nodes[n + 1])>>]

Min(a, b) == IF a < b THEN a ELSE b

\* fusions after the turns n, n+1, ..., upto-1 of "for i in range(min(...))"
RECURSIVE Fusions(_, _, _, _)
Fusions(acc, found, n, upto) ==
  IF n >= upto THEN acc
  ELSE Fusions(InsortFusion(acc, <<found[n + 1][2], WordList(found[n + 1][1])>>),
               found, n + 1, upto)

\* k_shortest_paths returns; get_compression builds its sorted list
KspReturn ==
  /\ pc = "search"
  /\ ~WhileCondition
  /\ fusions' = Fusions(<<>>, kshortestpaths, 0, Min(nb_candidates, Len(kshortestpaths)))
  /\ pc' = "done"
  /\ UNCHANGED <<krVars, sentence, paramVars, statVars, graphVars, i, j, exc, nb_candidates,
                 kshortestpaths, orderedX, paths, visited, sentence_container>>

\* ------------------------------------------------------- specifications
Next ==
  \/ PreProcess
  \/ ComputeStatistics
  \/ Pass1Step
  \/ Pass2Step
  \/ Pass3Step
  \/ Pass4Step
  \/ AddEdges
  \/ ComputeWeights
  \/ \E k \in 0..MaxK : GetCompression(k)
  \/ KspIterate
  \/ KspReturn

Spec == Init /\ [][Next]_vars

InitContent == InitWith(VocabContent, StopwordSets)
SpecContent == InitContent /\ [][Next]_vars

InitHomograph == InitWith(VocabHomograph, StopwordSets)
SpecHomograph == InitHomograph /\ [][Next]_vars

InitParen == InitWith(VocabParen, StopwordSets)
SpecParen == InitParen /\ [][Next]_vars

\* the constructor alone, on longer sentence lists, nb_words at its default
default_nb_words == 8

NextBuild ==
  \/ PreProcess
  \/ ComputeStatistics
  \/ Pass1Step
  \/ Pass2Step
  \/ Pass3Step
  \/ Pass4Step
  \/ AddEdges
  \/ ComputeWeights

InitBuild == InitOf(SentenceLists(VocabRepeat, MaxBuildTokens), {default_nb_words}, StopwordSets)
SpecBuild == InitBuild /\ [][NextBuild]_vars

InitMalformed == InitWith(VocabMalformed, StopwordSets)
SpecMalformed == InitMalformed /\ [][Next]_vars

\* a content word and a token that bears the label of the end sentinel
VocabSentinelWord == {<<"ran", "VBD", "1">>, <<stop, stop, "1">>}
InitSentinelWord == InitWith(VocabSentinelWord, StopwordSets)
SpecSentinelWord == InitSentinelWord /\ [][Next]_vars

\* a stopword list that holds a punctuation mark
PunctuationStopwordSets == {{"the", ","}}
InitPunctuationStopword == InitWith(VocabMain, PunctuationStopwordSets)
SpecPunctuationStopword == InitPunctuationStopword /\ [][Next]_vars

\* ==================================================== keyphrase_reranker
\* The object is made with lang="en", patterns=[] and pos_separator='/'.  The
\* variables i, pc, exc and stopwords are those of the object in work: in the
\* specifications below no word_graph runs and stopwords is the reranker's
\* self.stopwords.  A sentence is given as the list that split(' ') yields,
\* each token cut at its separators into its fields; build_graph replaces it
\* by the list of its (word, POS) tuples.
syntactic_filter == {"JJ", "NNP", "NNS", "NN", "NNPS"}

\* ------------------------------------------------------ wordpos_to_tuple
\* '/'.join(fields)
RECURSIVE JoinFields(_)
JoinFields(fs) ==
  IF Len(fs) = 1 THEN fs[1] ELSE fs[1] \o "/" \o JoinFields(Tail(fs))

\* re.match("^(.+)/(.+)$", word) on the fields of a token: the first group
\* is greedy, so the token is cut at its last separator.  (No token of the
\* input alphabets has an empty field next to a separator.)
WordPosMatches(w) == Len(w) >= 2 /\ \A n \in 1..Len(w) : w[n] # ""

wordpos_to_tuple(w) == <<Lower(JoinFields(SubSeq(w, 1, Len(w) - 1))), w[Len(w)]>>

\* ----------------------------------------------------------- build_graph
\* sentence[j] after the first loop
TupleOf(w) ==
  LET word == Lower(wordpos_to_tuple(w)[1])
      pos == wordpos_to_tuple(w)[2]
  IN  IF word \in stopwords THEN <<word, "STOPWORD">> ELSE <<word, pos>>

\* the tokens before the first one that wordpos_to_tuple cannot cut
RECURSIVE Convertible(_)
Convertible(words) ==
  IF words = <<>> \/ ~WordPosMatches(Head(words)) THEN <<>>
  ELSE <<Head(words)>> \o Convertible(Tail(words))

\* the nodes the first loop adds for a list of tuples
FilterNodes(tuples) == {tuples[n] : n \in {m \in 1..Len(tuples) : tuples[m][2] \in syntactic_filter}}

\* graph.add_node on every node of ns (a node already there keeps its edges)
AddNodes(g, ns) ==
  [n \in DOMAIN g \cup ns |-> IF n \in DOMAIN g THEN g[n] ELSE EmptyFun]

\* the turns (j, k) of the second loop that meet the nodes a and b
PairCount(tuples, a, b) ==
  Cardinality({x \in (1..Len(tuples)) \X (1..Len(tuples)) :
                 /\ x[1] < x[2]
                 /\ \/ tuples[x[1]] = a /\ tuples[x[2]] = b
                    \/ tuples[x[1]] = b /\ tuples[x[2]] = a})

\* the second loop: weight 1 on the first meeting, + 1 on each later one
AddCooccurrences(g, tuples) ==
  [a \in DOMAIN g |->
     [b \in DOMAIN g[a] \cup {c \in DOMAIN g : PairCount(tuples, a, c) > 0} |->
        (IF b \in DOMAIN g[a] THEN g[a][b] ELSE 0) + PairCount(tuples, a, b)]]

\* One turn of the loop over the sentences.  On a token without a match
\* m.group raises AttributeError in the first loop: the nodes of the tokens
\* before it are in the graph, self.sentences[i] is not replaced.
KrBuildGraph ==
  /\ pc = "build_graph"
  /\ i < Len(sentences)
  /\ LET words == sentences[i + 1]
         done == Convertible(words)
         tuples == [n \in 1..Len(done) |-> TupleOf(done[n])]
         g == AddNodes(adj, FilterNodes(tuples))
     IN  IF Len(done) = Len(words)
         THEN /\ adj' = AddCooccurrences(g, tuples)
              /\ sentences' = [sentences EXCEPT ![i + 1] = tuples]
              /\ i' = i + 1
              /\ UNCHANGED <<pc, exc>>
         ELSE /\ adj' = g
              /\ pc' = "error"
              /\ exc' = "AttributeError"
              /\ UNCHANGED <<sentences, i>>
  /\ UNCHANGED <<wgVars, stopwords, nbest_compressions, rankVars, keyVars, reranked_compressions>>

\* --------------------------------------------------- generate_candidates
\* The characters of the words that can stand in a keyphrase or a compression.
Chars(word) ==
  CASE word = "art" -> <<"a", "r", "t">>
    [] word = "part" -> <<"p", "a", "r", "t">>
    [] word = "ran" -> <<"r", "a", "n">>
    [] word = "in" -> <<"i", "n">>
    [] word = "ink" -> <<"i", "n", "k">>
    [] word = "link" -> <<"l", "i", "n", "k">>

\* ' '.join(words): a str built from words is the list of its characters
RECURSIVE JoinWords(_)
JoinWords(words) ==
  IF words = <<>> THEN <<>>
  ELSE IF Len(words) = 1 THEN Chars(words[1])
  ELSE Chars(words[1]) \o <<" ">> \o JoinWords(Tail(words))

\* ' '.join(u[0] for u in tuples)
JoinTuples(tuples) == JoinWords([n \in 1..Len(tuples) |-> tuples[n][1]])

\* re.search('^(JJ)*(NNP|NNS|NN)+$', ''.join(u[1] for u in candidate)), the
\* one pattern of lang="en".  The tags of a candidate are tags of the
\* syntactic filter, and a string of such tags can be read as tags in one way
\* only, so the search is decided on the list of tags.
is_a_candidate(keyphrase_candidate) ==
  \E k \in 0..(Len(keyphrase_candidate) - 1) :
     /\ \A n \in 1..k : keyphrase_candidate[n][2] = "JJ"
     /\ \A n \in (k + 1)..Len(keyphrase_candidate) :
           keyphrase_candidate[n][2] \in {"NNP", "NNS", "NN"}

\* the buffer when the loop over the tuples ends or meets another word
Flush(candidate) ==
  IF Len(candidate) > 0 /\ is_a_candidate(candidate) THEN <<candidate>> ELSE <<>>

\* the candidates of one sentence, in the order the loop stores them
RECURSIVE CandidatesOf(_, _)
CandidatesOf(tuples, candidate) ==
  IF tuples = <<>> THEN Flush(candidate)
  ELSE IF Head(tuples)[2] \in syntactic_filter
       THEN CandidatesOf(Tail(tuples), Append(candidate, Head(tuples)))
       ELSE Flush(candidate) \o CandidatesOf(Tail(tuples), <<>>)

\* the candidates of the sentences from number s on
RECURSIVE AllCandidates(_)
AllCandidates(s) ==
  IF s > Len(sentences) THEN <<>>
  ELSE CandidatesOf(sentences[s], <<>>) \o AllCandidates(s + 1)

\* self.keyphrase_candidates is kept as the list of its items <<keyphrase,
\* candidate>> in the order the dictionary iterates; the order is one of the
\* orders of the keys, a later candidate replaces an earlier one of the
\* same keyphrase.
Keys(items) == {items[n][1] : n \in 1..Len(items)}
Value(items, key) == items[CHOOSE n \in 1..Len(items) : items[n][1] = key][2]

KrGenerateCandidates ==
  /\ pc = "build_graph"
  /\ i = Len(sentences)
  /\ LET found == AllCandidates(1)
         last(key) == CHOOSE n \in 1..Len(found) :
                        /\ JoinTuples(found[n]) = key
                        /\ \A m \in (n + 1)..Len(found) : JoinTuples(found[m]) # key
     IN  \E order \in Orders({JoinTuples(found[n]) : n \in 1..Len(found)}) :
           keyphrase_candidates' =
             [n \in 1..Len(order) |-> <<order[n], found[last(order[n])]>>]
  /\ pc' = "undirected_TextRank"
  /\ UNCHANGED <<wgVars, stopwords, sentences, nbest_compressions, adj, rankVars,
                 keyphrase_scores, cluster_keys, reranked_compressions, i, exc>>

\* ----------------------------------------------------- undirected_TextRank
\* A score is a whole number of the unit 0.000001: 1.0 is Unit, a product or
\* quotient is cut to the unit.  d=0.85 and f_conv=0.0001 are the defaults.
Unit == 1000000
d_hundredths == 85
f_conv == Unit \div 10000

Abs(x) == IF x < 0 THEN 0 - x ELSE x

\* sum_wjk: the weights of the edges at node_j
RECURSIVE SumWeights(_, _)
SumWeights(node_j, ks) ==
  IF ks = {} THEN 0
  ELSE LET node_k == CHOOSE k \in ks : TRUE
       IN  adj[node_j][node_k] + SumWeights(node_j, ks \ {node_k})

\* sum_Vj over the neighbours js of node_i, from the copied scores
RECURSIVE SumVj(_, _, _)
SumVj(node_i, js, scores) ==
  IF js = {} THEN 0
  ELSE LET node_j == CHOOSE n \in js : TRUE
       IN  (adj[node_j][node_i] * scores[node_j]) \div SumWeights(node_j, DOMAIN adj[node_j])
             + SumVj(node_i, js \ {node_j}, scores)

\* (1 - d) + (d * sum_Vj)
NewScore_KeepIsolated(node_i, scores) ==
  IF DOMAIN adj[node_i] = {} THEN scores[node_i]
  ELSE (Unit - (d_hundredths * Unit) \div 100)
         + (d_hundredths * SumVj(node_i, DOMAIN adj[node_i], scores)) \div 100
NewScore(node_i, scores) ==
  (Unit - (d_hundredths * Unit) \div 100)
    + (d_hundredths * SumVj(node_i, DOMAIN adj[node_i], scores)) \div 100

\* the statements before the while loop; graph.nodes() lists the nodes in
\* the order of a dictionary, the same at every call while no node is added
KrTextRankInit ==
  /\ pc = "undirected_TextRank"
  /\ \E order \in Orders(DOMAIN adj) : graph_nodes' = order
  /\ max_node_difference' = f_conv
  /\ word_scores' = [n \in DOMAIN adj |-> Unit]
  /\ current_node_scores' = EmptyFun
  /\ sweeps' = 0
  /\ pc' = "while"
  /\ UNCHANGED <<wgVars, stopwords, sentences, nbest_compressions, adj, keyVars,
                 reranked_compressions, i, exc>>

\* One turn of the while loop.  Every new score is computed from the copy;
\* max_node_difference is assigned max(score_difference, score_difference)
\* in each turn of the for loop, so the last node's value stays (without a
\* node it keeps its value).  MaxSweeps bounds the counter sweeps.
KrSweep ==
  /\ pc = "while"
  /\ max_node_difference >= f_conv
  /\ sweeps < MaxSweeps
  /\ current_node_scores' = word_scores
  /\ word_scores' = [n \in DOMAIN adj |-> NewScore(n, word_scores)]
  /\ max_node_difference' =
       IF graph_nodes = <<>> THEN max_node_difference
       ELSE LET node_i == graph_nodes[Len(graph_nodes)]
            IN  Abs(NewScore(node_i, word_scores) - word_scores[node_i])
  /\ sweeps' = sweeps + 1
  /\ UNCHANGED <<wgVars, stopwords, sentences, nbest_compressions, adj, graph_nodes,
                 keyVars, reranked_compressions, i, pc, exc>>

\* ---------------------------------------------- score_keyphrase_candidates
RECURSIVE SumScores(_)
SumScores(candidate) ==
  IF candidate = <<>> THEN 0
  ELSE word_scores[Head(candidate)] + SumScores(Tail(candidate))

\* the while loop is left; the sum of the word scores over length + 1
KrScoreCandidates ==
  /\ pc = "while"
  /\ max_node_difference < f_conv
  /\ keyphrase_scores' =
       [key \in Keys(keyphrase_candidates) |->
          SumScores(Value(keyphrase_candidates, key))
            \div (Len(Value(keyphrase_candidates, key)) + 1)]
  /\ pc' = "cluster_keyphrase_candidates"
  /\ UNCHANGED <<wgVars, stopwords, sentences, nbest_compressions, adj, rankVars,
                 keyphrase_candidates, cluster_keys, reranked_compressions, i, exc>>

\* ------------------------------------------- cluster_keyphrase_candidates
\* str.split(' '), the word in work being current
RECURSIVE SplitFrom(_, _)
SplitFrom(str, current) ==
  IF str = <<>> THEN <<current>>
  ELSE IF Head(str) = " " THEN <<current>> \o SplitFrom(Tail(str), <<>>)
  ELSE SplitFrom(Tail(str), Append(current, Head(str)))

\* set(keyphrase.split(' '))
WordSet(keyphrase) ==
  LET words == SplitFrom(keyphrase, <<>>) IN {words[n] : n \in 1..Len(words)}

\* a in b, for two str
IsWordSubset(a, b) == WordSet(a) \subseteq WordSet(b)
IsIn(a, b) == \E k \in 0..(Len(b) - Len(a)) : SubSeq(b, k + 1, k + Len(a)) = a

\* sorted(l, key=..., reverse=True), the keys given as the list measure: the
\* sort is stable, elements of one key keep their order
StableDescending(l, measure) ==
  LET before(n) == Cardinality({m \in 1..Len(l) :
                      measure[m] > measure[n] \/ (measure[m] = measure[n] /\ m < n)})
  IN  [k \in 1..Len(l) |-> l[CHOOSE n \in 1..Len(l) : before(n) = k - 1]]

\* the loop over the keyphrases by decreasing length: a keyphrase joins every
\* cluster whose representative holds all its words, or founds a cluster
RECURSIVE BuildClusters(_, _)
BuildClusters(clusters, todo) ==
  IF todo = <<>> THEN clusters
  ELSE LET keyphrase == Head(todo)
           fits == {cluster \in DOMAIN clusters : IsWordSubset(keyphrase, cluster)}
       IN  IF fits # {}
           THEN BuildClusters([cluster \in DOMAIN clusters |->
                                 IF cluster \in fits
                                 THEN Append(clusters[cluster], keyphrase)
                                 ELSE clusters[cluster]], Tail(todo))
           ELSE BuildClusters([cluster \in DOMAIN clusters \cup {keyphrase} |->
                                 IF cluster = keyphrase THEN <<keyphrase>>
                                 ELSE clusters[cluster]], Tail(todo))

ScoresOf(l) == [n \in 1..Len(l) |-> keyphrase_scores[l[n]]]

\* the last loop: a keyphrase found inside an earlier one is dropped
RECURSIVE NonRedundant(_, _)
NonRedundant(non_redundant_keyphrases, todo) ==
  IF todo = <<>> THEN non_redundant_keyphrases
  ELSE IF \E n \in 1..Len(non_redundant_keyphrases) :
             IsIn(Head(todo), non_redundant_keyphrases[n])
       THEN NonRedundant(non_redundant_keyphrases, Tail(todo))
       ELSE NonRedundant(Append(non_redundant_keyphrases, Head(todo)), Tail(todo))

\* del d[key] for every key outside keep: the other items keep their order
RECURSIVE Kept(_, _)
Kept(items, keep) ==
  IF items = <<>> THEN <<>>
  ELSE IF Head(items)[1] \in keep THEN <<Head(items)>> \o Kept(Tail(items), keep)
  ELSE Kept(Tail(items), keep)

\* the dictionary clusters after the loop over the keyphrases
Clusters ==
  LET keys == [n \in 1..Len(keyphrase_candidates) |-> keyphrase_candidates[n][1]]
      lengths == [n \in 1..Len(keyphrase_candidates) |-> Len(keyphrase_candidates[n][2])]
  IN  BuildClusters(EmptyFun, StableDescending(keys, lengths))

\* its keys in the order they were put in
RECURSIVE Representatives(_)
Representatives(descending) ==
  IF descending = <<>> THEN <<>>
  ELSE IF Head(descending) \in DOMAIN Clusters
       THEN <<Head(descending)>> \o Representatives(Tail(descending))
       ELSE Representatives(Tail(descending))

Inserted ==
  LET keys == [n \in 1..Len(keyphrase_candidates) |-> keyphrase_candidates[n][1]]
      lengths == [n \in 1..Len(keyphrase_candidates) |-> Len(keyphrase_candidates[n][2])]
  IN  Representatives(StableDescending(keys, lengths))

\* what one run leaves of the candidates when "for cluster in clusters"
\* visits the clusters in the order cluster_order
Clustered(cluster_order) ==
  LET best_candidate_keyphrases ==
        [n \in 1..Len(cluster_order) |->
           StableDescending(Clusters[cluster_order[n]],
                            ScoresOf(Clusters[cluster_order[n]]))[1]]
      sorted_keyphrases ==
        StableDescending(best_candidate_keyphrases, ScoresOf(best_candidate_keyphrases))
      non_redundant_keyphrases == NonRedundant(<<>>, sorted_keyphrases)
  IN  {non_redundant_keyphrases[n] : n \in 1..Len(non_redundant_keyphrases)}

\* The orders in which clusters can iterate: a dictionary iterates in an
\* order of its keys that the keys and the order of their insertion settle,
\* so a run that fills clusters as the run before did meets the same order.
IterationOrders ==
  IF Inserted = cluster_keys.inserted THEN {cluster_keys.iterated} ELSE Orders(DOMAIN Clusters)

\* One run: the last step of the constructor, or a call by the user of the
\* object.
KrCluster ==
  /\ pc \in {"cluster_keyphrase_candidates", "ready"}
  /\ \E cluster_order \in IterationOrders :
       /\ keyphrase_candidates' = Kept(keyphrase_candidates, Clustered(cluster_order))
       /\ keyphrase_scores' = [key \in Clustered(cluster_order) |-> keyphrase_scores[key]]
       /\ cluster_keys' = [inserted |-> Inserted, iterated |-> cluster_order]
  /\ pc' = "ready"
  /\ UNCHANGED <<wgVars, stopwords, sentences, nbest_compressions, adj, rankVars,
                 reranked_compressions, i, exc>>

\* -------------------------------------------- rerank_nbest_compressions
\* Python's order of two paths, lists of (word, POS) tuples
TupleLt(a, b) ==
  \/ StrRank(a[1]) < StrRank(b[1])
  \/ a[1] = b[1] /\ StrRank(a[2]) < StrRank(b[2])

RECURSIVE PathLt(_, _)
PathLt(a, b) ==
  IF a = <<>> THEN b # <<>>
  ELSE IF b = <<>> THEN FALSE
  ELSE IF Head(a) = Head(b) THEN PathLt(Tail(a), Tail(b))
  ELSE TupleLt(Head(a), Head(b))

\* Python's order of the (score, path) tuples
RerankedLt(a, b) == RLt(a[1], b[1]) \/ (a[1] = b[1] /\ PathLt(a[2], b[2]))

InsortReranked(l, x) == InsertBefore(l, x, {n \in 1..Len(l) : RerankedLt(x, l[n])})

\* total_keyphrase_score of a path: 1.0 and the score of every keyphrase
\* found inside the compression
RECURSIVE SumContained(_, _)
SumContained(items, compression) ==
  IF items = <<>> THEN 0
  ELSE (IF IsIn(Head(items)[1], compression) THEN keyphrase_scores[Head(items)[1]] ELSE 0)
         + SumContained(Tail(items), compression)

TotalKeyphraseScore(path) == Unit + SumContained(keyphrase_candidates, JoinTuples(path))

\* cummulative_score / (len(path) * total_keyphrase_score), the total in
\* units: the fraction is the code's score over Unit, for every candidate
Score_LengthOnly(cummulative_score, path) ==
  RNorm(cummulative_score[1], cummulative_score[2] * Len(path) * Unit)
Score(cummulative_score, path) ==
  RNorm(cummulative_score[1], cummulative_score[2] * Len(path) * TotalKeyphraseScore(path))

RECURSIVE Reranked(_, _)
Reranked(acc, todo) ==
  IF todo = <<>> THEN acc
  ELSE Reranked(InsortReranked(acc, <<Score(Head(todo)[1], Head(todo)[2]), Head(todo)[2]>>),
                Tail(todo))

\* The whole function; on an empty path the division raises
\* ZeroDivisionError and nothing is returned.
KrRerank ==
  /\ pc = "ready"
  /\ IF \A n \in 1..Len(nbest_compressions) : nbest_compressions[n][2] # <<>>
     THEN /\ reranked_compressions' = Reranked(<<>>, nbest_compressions)
          /\ pc' = "reranked"
          /\ UNCHANGED exc
     ELSE /\ pc' = "error"
          /\ exc' = "ZeroDivisionError"
          /\ UNCHANGED reranked_compressions
  /\ UNCHANGED <<wgVars, stopwords, sentences, nbest_compressions, adj, rankVars,
                 keyVars, i>>

\* ------------------------------------------- reranker specifications
\* a noun, a noun that holds the characters of the first (capitalised), a
\* verb, and the first noun as the token of a word_graph sentence
VocabRerank == {<<"art", "NN">>, <<"Part", "NN">>, <<"ran", "VBD">>, <<"art", "NN", "1">>}

\* The stopword lists given to the reranker (none by default).
RerankStopwordSets == {{}, {"art"}}

\* the state before "self.build_graph()" for the sentence lists S, the
\* candidate lists NB and the stopword lists SW
InitReranker(S, NB, SW) ==
  /\ sentence = <<>>
  /\ length = 0
  /\ nb_words = default_nb_words
  /\ stopwords \in SW
  /\ term_freq = EmptyFun
  /\ term_weight = EmptyFun
  /\ info = EmptyFun
  /\ edges = {}
  /\ weight = EmptyFun
  /\ mapping = <<>>
  /\ i = 0
  /\ j = 0
  /\ pc = "build_graph"
  /\ exc = "none"
  /\ nb_candidates = 0
  /\ kshortestpaths = <<>>
  /\ orderedX = <<>>
  /\ paths = EmptyFun
  /\ visited = EmptyFun
  /\ sentence_container = {}
  /\ fusions = <<>>
  /\ sentences \in S
  /\ nbest_compressions \in NB
  /\ adj = EmptyFun
  /\ graph_nodes = <<>>
  /\ word_scores = EmptyFun
  /\ current_node_scores = EmptyFun
  /\ max_node_difference = 0
  /\ sweeps = 0
  /\ keyphrase_candidates = <<>>
  /\ keyphrase_scores = EmptyFun
  /\ cluster_keys = NoClusters
  /\ reranked_compressions = <<>>

NextRerank ==
  \/ KrBuildGraph
  \/ KrGenerateCandidates
  \/ KrTextRankInit
  \/ KrSweep
  \/ KrScoreCandidates
  \/ KrCluster
  \/ KrRerank

InitTextRank == InitReranker(SentenceLists(VocabRerank, MaxRerankTokens), {<<>>}, RerankStopwordSets)
SpecTextRank == InitTextRank /\ [][NextRerank]_vars

\* Two compression candidates as get_compression returns them: (cumulative
\* weight, list of (word, POS) tuples).  The compression "part" holds the
\* keyphrases "part" and "art".
VocabKeyphrase == {<<"art", "NN">>, <<"Part", "NN">>, <<"ran", "VBD">>}
Compressions ==
  {<<<<1, 1>>, <<<<"art", "NN">>>>>>,
   <<<<1, 1>>, <<<<"part", "NN">>>>>>,
   <<<<1, 1>>, <<<<"ran", "VBD">>, <<"ran", "VBD">>>>>>,
   <<<<1, 1>>, <<<<"art", "NN">>, <<"ran", "VBD">>>>>>,
   <<<<2, 1>>, <<<<"ran", "VBD">>>>>>}
NbestLists == {<<a, b>> : a \in Compressions, b \in Compressions}

\* three nouns, each found inside the next, and a verb
VocabCluster == {<<"in", "NN">>, <<"ink", "NN">>, <<"link", "NN">>, <<"ran", "VBD">>}
InitCluster == InitReranker(SentenceLists(VocabCluster, MaxRerankTokens), {<<>>}, {{}})
SpecCluster == InitCluster /\ [][NextRerank]_vars

InitRerank == InitReranker(SentenceLists(VocabKeyphrase, MaxRerankTokens), NbestLists, {{}})
SpecRerank == InitRerank /\ [][NextRerank]_vars

\* sentences of nouns, each sentence a keyphrase: two keyphrases share a
\* word that is a keyphrase of its own
SharedWordSentences ==
  {<<<<"in", "NN">>, <<"ink", "NN">>>>, <<<<"in", "NN">>, <<"link", "NN">>>>,
   <<<<"in", "NN">>>>, <<<<"link", "NN">>>>}
InitSharedWord ==
  InitReranker(UNION {[1..n -> SharedWordSentences] : n \in 0..MaxSharedSentences}, {<<>>}, {{}})
SpecSharedWord == InitSharedWord /\ [][NextRerank]_vars

\* ------------------------------------------------------------ properties
\* Stated on the paths as returned (start node first), with definitions of
\* their own for the quantities the search computes.
Returned == {kshortestpaths[n][1] : n \in 1..Len(kshortestpaths)}

\* the tokens of a returned path between the two sentinels
InnerPositions(path) == 2..(Len(path) - 1)
HasVerb(path) == \E n \in InnerPositions(path) : path[n][1][2] \in verbs
NonPunctuation(path) == {n \in InnerPositions(path) : path[n][1][1] \notin NonWordChars}
Surface(path) == [n \in 1..Len(path) |-> path[n][1][1]]
NoRepeatedNode(path) == \A x, y \in 1..Len(path) : x # y => path[x] # path[y]

InputTokens == UNION {{sentence[s][n] : n \in 1..Len(sentence[s])} : s \in 1..Len(sentence)}
InputHasVerb == \E t \in InputTokens : t[2] \in verbs

\* C1: no node of the word graph has two entries of its occurrence list with
\* the same sentence index, in every state of the construction and after it.
C1_SameSentenceExclusion ==
  \A n \in Nodes : \A x, y \in 1..Len(info[n]) :
    x # y => info[n][x][1] # info[n][y][1]

\* a sentence repeated a word, and the second occurrence got a variant of its own
C1_Witness ==
  /\ pc = "built"
  /\ \E n, m \in Nodes :
       /\ n[1] = m[1]
       /\ n[2] # m[2]
       /\ \E x \in 1..Len(info[n]), y \in 1..Len(info[m]) : info[n][x][1] = info[m][y][1]

\* C2: every path returned by k_shortest_paths, and every candidate of
\* get_compression, holds a token with a verb tag; when no token of the input
\* has a verb tag the list get_compression returns is empty.
C2_VerbInEveryPath ==
  /\ \A path \in Returned : HasVerb(path)
  /\ \A n \in 1..Len(fusions) : \E x \in 1..Len(fusions[n][2]) : fusions[n][2][x][2] \in verbs
  /\ (pc = "done" /\ ~InputHasVerb) => fusions = <<>>

\* the search ran out of routes: one sentence gave a path, another one, long
\* enough but without a verb, gave none
C2_Witness ==
  /\ pc = "done"
  /\ nb_candidates = 2
  /\ Len(kshortestpaths) = 1
  /\ \E s \in 1..length :
       /\ Len(sentence[s]) - 2 >= nb_words
       /\ \A n \in 1..Len(sentence[s]) :
            sentence[s][n][2] \notin verbs /\ sentence[s][n][1] \notin NonWordChars

\* C3: every returned path has at least nb_words tokens that are not
\* punctuation marks, the two sentinels not counted.
C3_MinimalLength ==
  \A path \in Returned : Cardinality(NonPunctuation(path)) >= nb_words

\* the only sentence has a verb and nb_words tokens, one of them a
\* punctuation mark: it is not returned
C3_Witness ==
  /\ pc = "done"
  /\ nb_candidates > 0
  /\ length = 1
  /\ nb_words = 2
  /\ Len(sentence[1]) = 4
  /\ \E n \in 2..3 : sentence[1][n][2] \in verbs
  /\ \E n \in 2..3 : sentence[1][n][1] \in NonWordChars
  /\ fusions = <<>>

\* the number of '(' still open after the first n nodes of a path
Depth(path, n) ==
  Cardinality({x \in 1..n : path[x][1][1] = "("}) - Cardinality({x \in 1..n : path[x][1][1] = ")"})

\* C4: every returned path has balanced parenthesis nesting: read from start
\* to end, no ')' comes before its '(' and every '(' is closed.
C4_BalancedNesting ==
  \A path \in Returned :
    /\ \A n \in 1..Len(path) : Depth(path, n) >= 0
    /\ Depth(path, Len(path)) = 0

\* C5: no two paths returned by one call have the same surface string.
C5_DistinctSurfaces ==
  \A a, b \in 1..Len(kshortestpaths) :
    a # b => Surface(kshortestpaths[a][1]) # Surface(kshortestpaths[b][1])

\* two nodes with the same word follow the same node and lead to the end: one
\* route was returned, the other was reached too (the frontier ran empty)
C5_Witness ==
  /\ pc = "done"
  /\ nb_candidates = 2
  /\ Len(kshortestpaths) = 1
  /\ orderedX = <<>>
  /\ LET path == kshortestpaths[1][1]
     IN  /\ Len(path) = 4
         /\ \E n \in Nodes :
              /\ n # path[3]
              /\ n[1][1] = path[3][1][1]
              /\ <<path[2], n>> \in edges
              /\ <<n, EndNode>> \in edges
              /\ nb_words <= 2

\* the loop-free routes of the graph from the start node to the end node
RECURSIVE RoutesFrom(_)
RoutesFrom(prefix) ==
  LET last == prefix[Len(prefix)]
  IN  IF last = EndNode THEN {prefix}
      ELSE UNION {RoutesFrom(Append(prefix, m)) :
                    m \in {x \in Neighbors(last) : \A n \in 1..Len(prefix) : prefix[n] # x}}

Routes == IF StartNode \in Nodes THEN RoutesFrom(<<StartNode>>) ELSE {}

RECURSIVE RouteWeight(_)
RouteWeight(path) ==
  IF Len(path) < 2 THEN RZero
  ELSE RAdd(weight[<<path[1], path[2]>>], RouteWeight(Tail(path)))

PassesChecks(path) ==
  /\ HasVerb(path)
  /\ Cardinality(NonPunctuation(path)) >= nb_words
  /\ Depth(path, Len(path)) = 0
  /\ Cardinality({n \in 1..Len(path) : path[n][1][1] = "\""}) % 2 = 0

\* the valid routes whose surface string was not returned
Unreturned == {r \in Routes : PassesChecks(r) /\ \A path \in Returned : Surface(path) # Surface(r)}

Stripped(path) == [n \in 1..(Len(path) - 2) |-> path[n + 1][1]]

C7_SortedCandidates ==
  pc = "done" =>
    /\ Len(fusions) <= nb_candidates
    /\ Len(fusions) = Len(kshortestpaths)
    /\ \A a, b \in 1..Len(fusions) : a < b => RLe(fusions[a][1], fusions[b][1])
    /\ \A n \in 1..Len(fusions) : \E m \in 1..Len(kshortestpaths) :
         fusions[n] = <<kshortestpaths[m][2], Stripped(kshortestpaths[m][1])>>

\* two candidates of different weights were returned
C7_Witness ==
  /\ pc = "done"
  /\ Len(fusions) = 2
  /\ RLt(fusions[1][1], fusions[2][1])

\* C8: every accepted path begins at the start node, ends at the end node and
\* visits no node twice; no path so far of the frontier holds a node twice.
C8_LoopFreePaths ==
  /\ \A path \in Returned :
       /\ path[1] = StartNode
       /\ path[Len(path)] = EndNode
       /\ NoRepeatedNode(path)
  /\ \A e \in DOMAIN paths : NoRepeatedNode(paths[e])

\* a returned path whose later node has an edge back to an earlier one
C8_Witness ==
  /\ pc = "done"
  /\ \E path \in Returned : \E x, y \in InnerPositions(path) :
       x < y /\ <<path[y], path[x]>> \in edges

\* C9: k_shortest_paths terminates on every word graph built from a finite
\* sentence set and returns without raising an error, also when the frontier
\* runs empty before k paths are accepted.
C9_SearchReturns == ~(pc = "error" /\ exc = "NetworkXError")

\* C10: for a word_graph built from an empty sentence list get_compression
\* returns an empty candidate list and does not fail.
C10_EmptyInput == length = 0 => (pc # "error" /\ fusions = <<>>)

\* the sentences that pre_process_sentences has replaced by their container
Preprocessed(s) == (pc = "pre_process" \/ exc = "AttributeError") => s <= i

\* the caller's tokens of sentence s
CallerTokens(s) ==
  IF Preprocessed(s)
  THEN {sentence[s][n] : n \in 2..(Len(sentence[s]) - 1)}
  ELSE {sentence[s][n] : n \in 1..Len(sentence[s])}

\* a token that is not of the shape word/POS/weight of the pattern
FailsPattern(w) == ~(Len(w) = 3 /\ w[1] # "" /\ w[2] # "" /\ w[3] \in WeightPattern)

InputFailsPattern == \E s \in 1..length : \E w \in CallerTokens(s) : FailsPattern(w)

AfterTurn(neighbors) ==
  VisitNeighbors(Popped, Head(orderedX), paths[Head(orderedX)], neighbors)

\* C12: the result of get_compression is a function of the sentence list, the
\* parameters and k.  The construction has no choice to make; in the search
\* every order in which the successors of the popped node can be listed
\* leaves the same accepted paths, frontier, path map, counters and accepted
\* sentences; the frontier and the candidate list are strictly ordered, so no
\* two entries are placed by anything but their own value.
C12_Deterministic ==
  /\ (pc = "search" /\ WhileCondition /\ Head(orderedX)[2] \in Nodes) =>
       \A o1, o2 \in Orders(Neighbors(Head(orderedX)[2])) : AfterTurn(o1) = AfterTurn(o2)
  /\ \A a, b \in 1..Len(orderedX) : a < b => EntryLt(orderedX[a], orderedX[b])
  /\ \A a, b \in 1..Len(fusions) : a < b => FusionLt(fusions[a], fusions[b])

\* two successors of the start node entered the frontier with the same
\* cumulative weight, and each of them begins a returned candidate
C12_Witness ==
  /\ pc = "done"
  /\ Len(fusions) = 2
  /\ \E x, y \in Neighbors(StartNode) :
       /\ x # y /\ x # EndNode /\ y # EndNode
       /\ weight[<<StartNode, x>>] = weight[<<StartNode, y>>]
       /\ \E a, b \in 1..2 : kshortestpaths[a][1][2] = x /\ kshortestpaths[b][1][2] = y

\* the variants of a lexical label, and those a sentence has not yet used
VariantsOf(label) == {n \in Nodes : n[1] = label}
HasOccurrence(n, s) == \E x \in 1..Len(info[n]) : info[n][x][1] = s
FreeVariants(label, s) == {n \in VariantsOf(label) : ~HasOccurrence(n, s)}

\* pass 2 is about to place the token at (i, j)
Pass2Places ==
  /\ pc = "pass2"
  /\ Tok(i, j)[1] \notin stopwords
  /\ Tok(i, j)[1] \notin NonWordChars
  /\ mapping[j + 1] = Unmapped

\* C19: in pass 2 the occurrence is attached to an existing variant whenever
\* some existing variant has no occurrence from the current sentence; a new
\* variant is created only when every existing variant has one.
C19_AttachWhenFree ==
  [][(Pass2Places /\ FreeVariants(TokLabel(i, j), i) # {}) => DOMAIN info' = DOMAIN info]_vars

\* the number of occurrences of variant n whose left neighbour is the left
\* neighbour of the token at (i, j), plus the same on the right
ContextOverlap(n) ==
  Cardinality({x \in 1..Len(info[n]) :
                 TokLabel(info[n][x][1], info[n][x][2] - 1) = TokLabel(i, j - 1)})
    + Cardinality({x \in 1..Len(info[n]) :
                     TokLabel(info[n][x][1], info[n][x][2] + 1) = TokLabel(i, j + 1)})

\* C20: the variant to which pass 2 attaches a word has the highest context
\* overlap among the variants without an occurrence from the current
\* sentence and, among those tied on that overlap, the highest occurrence
\* count.
C20_BestFreeVariant ==
  [][Pass2Places =>
       \A n \in Nodes : info'[n] # info[n] =>
         /\ n \in FreeVariants(TokLabel(i, j), i)
         /\ \A m \in FreeVariants(TokLabel(i, j), i) :
              /\ ContextOverlap(m) <= ContextOverlap(n)
              /\ ContextOverlap(m) = ContextOverlap(n) => Len(info[m]) <= Len(info[n])]_vars

\* ------------------------------------------------ reranker properties
\* C13: undirected_TextRank terminates on every co-occurrence graph of 0 to
\* 50 nodes: the while loop is left before it has made MaxSweeps turns.  (A
\* sweep shrinks the changes of the scores by the factor d, so a loop that
\* ends at all ends far below MaxSweeps turns.)
C13_TextRankTerminates == pc = "while" => sweeps < MaxSweeps

Isolated(n) == n \in DOMAIN adj /\ DOMAIN adj[n] = {}
LoopLeft == pc \in {"cluster_keyphrase_candidates", "ready", "reranked"}

\* C14 as stated: a node without neighbours has the score 1.0 at the start,
\* after every sweep and when undirected_TextRank has returned.
C14_IsolatedKeepsOne ==
  \A n \in DOMAIN word_scores : Isolated(n) => word_scores[n] = Unit

\* C14: a node without neighbours has the score 1.0 before the first sweep
\* and the score 1 - d (0.15) after every sweep and when undirected_TextRank
\* has returned.
C14_IsolatedScore ==
  \A n \in DOMAIN word_scores :
     Isolated(n) =>
       word_scores[n] = IF sweeps = 0 THEN Unit ELSE Unit - (d_hundredths * Unit) \div 100

\* the procedure has returned on a graph with an isolated node and a node
\* that has a neighbour
C14_Witness ==
  /\ LoopLeft
  /\ sweeps >= 2
  /\ \E n, m \in DOMAIN adj : Isolated(n) /\ ~Isolated(m)

\* the nodes C15 expects of a sentence: (lowercased word, POS) of every
\* token whose POS is in the filter and whose word is no stopword
ExpectedNodes(words) ==
  {<<Lower(words[n][1]), words[n][2]>> :
     n \in {m \in 1..Len(words) : /\ words[m][2] \in syntactic_filter
                                  /\ Lower(words[m][1]) \notin stopwords}}

\* C15: build_graph, on a sentence whose tokens are all word/POS/weight,
\* adds the expected nodes of the sentence to the graph and no other node.
C15_DocumentedFormatNodes ==
  [][(/\ pc = "build_graph"
      /\ i < Len(sentences)
      /\ \A n \in 1..Len(sentences[i + 1]) : Len(sentences[i + 1][n]) = 3)
     => DOMAIN adj' = DOMAIN adj \cup ExpectedNodes(sentences[i + 1])]_vars

\* C18: when the while loop has been left, no node's score has changed by
\* more than f_conv in the last sweep.
C18_EveryNodeConverged ==
  LoopLeft =>
    \A n \in DOMAIN word_scores :
       Abs(word_scores[n] - current_node_scores[n]) <= f_conv

\* the surviving keyphrases found inside the compression of a path
Contained(path) == {key \in DOMAIN keyphrase_scores : IsIn(key, JoinTuples(path))}

\* the place of a candidate in the returned list
PlaceOf(path) ==
  CHOOSE n \in 1..Len(reranked_compressions) : reranked_compressions[n][2] = path

\* the first candidate holds a keyphrase that scores higher than every
\* keyphrase the second one holds
HoldsHigherKeyphrase(a, b) ==
  \E key \in Contained(a[2]) :
     \A other \in Contained(b[2]) : keyphrase_scores[other] < keyphrase_scores[key]

\* C16 as stated: of two candidates of equal cumulative weight, the one that
\* holds the higher-scored keyphrase stands earlier in the returned list,
\* whatever the lengths of the two paths.
C16_HigherKeyphraseFirst ==
  pc = "reranked" =>
    \A x, y \in 1..Len(nbest_compressions) :
       LET a == nbest_compressions[x]
           b == nbest_compressions[y]
       IN  (a[1] = b[1] /\ HoldsHigherKeyphrase(a, b)) => PlaceOf(a[2]) < PlaceOf(b[2])

RECURSIVE ScoreSum(_)
ScoreSum(keys) ==
  IF keys = {} THEN 0
  ELSE LET key == CHOOSE k \in keys : TRUE
       IN  keyphrase_scores[key] + ScoreSum(keys \ {key})

\* two candidates of equal positive cumulative weight and equal path length,
\* the keyphrases held by the first adding up to more than those of the second
SameWeightAndLength(a, b) ==
  /\ a[1] = b[1]
  /\ a[1][1] > 0
  /\ Len(a[2]) = Len(b[2])
  /\ ScoreSum(Contained(a[2])) > ScoreSum(Contained(b[2]))

\* C16: of two candidates of equal positive cumulative weight and equal path
\* length, the one whose surviving keyphrases (found inside it as
\* substrings) add up to the higher score stands earlier in the returned
\* list.
C16_HigherKeyphraseSumFirst ==
  pc = "reranked" =>
    \A x, y \in 1..Len(nbest_compressions) :
       SameWeightAndLength(nbest_compressions[x], nbest_compressions[y])
         => PlaceOf(nbest_compressions[x][2]) < PlaceOf(nbest_compressions[y][2])

\* the candidate given second holds the higher sum and is returned first
C16_Witness ==
  /\ pc = "reranked"
  /\ Len(nbest_compressions) = 2
  /\ SameWeightAndLength(nbest_compressions[2], nbest_compressions[1])
  /\ Contained(nbest_compressions[1][2]) # {}
  /\ reranked_compressions[1][2] = nbest_compressions[2][2]

\* no candidate's word set is a subset of another candidate's
NoSubsetRelation ==
  \A a, b \in Keys(keyphrase_candidates) : a # b => ~(WordSet(a) \subseteq WordSet(b))

\* C17: on the candidates a run of cluster_keyphrase_candidates has left,
\* none of them a subset of another, a further run removes no candidate and
\* no score.
C17_ReclusterNoOp ==
  [][(pc = "ready" /\ NoSubsetRelation)
       => (keyphrase_candidates' = keyphrase_candidates /\ keyphrase_scores' = keyphrase_scores)]_vars

\* ------------------------------------------- stopwords and punctuation
\* the context overlap of node m for the token at (i, j), counted on the
\* occurrences of m: an occurrence preceded by the label that precedes the
\* token counts once, one followed by the label that follows it counts once;
\* with non_pos a neighbour that is a stopword does not count
NeighbourOverlap(m, non_pos) ==
  LET counted(l) == non_pos => l[1] \notin stopwords
      before == {x \in 1..Len(info[m]) :
                   /\ TokLabel(info[m][x][1], info[m][x][2] - 1) = TokLabel(i, j - 1)
                   /\ counted(TokLabel(i, j - 1))}
      after == {x \in 1..Len(info[m]) :
                  /\ TokLabel(info[m][x][1], info[m][x][2] + 1) = TokLabel(i, j + 1)
                  /\ counted(TokLabel(i, j + 1))}
  IN  Cardinality(before) + Cardinality(after)

Adjacent(node1, node2) ==
  \E x \in 1..Len(info[node1]), y \in 1..Len(info[node2]) :
     /\ info[node1][x][1] = info[node2][y][1]
     /\ info[node1][x][2] + 1 = info[node2][y][2]

\* C22: for every edge of the graph some sentence has an occurrence of its
\* first node immediately before an occurrence of its second node, the sum
\* of the inverse distances is strictly positive, and the computation of the
\* edge weights never divides by a zero sum.
C22_PositiveDiffSum ==
  /\ \A e \in edges : Adjacent(e[1], e[2]) /\ DiffSum(e[1], e[2], 0)[1] > 0
  /\ exc # "ZeroDivisionError"

\* the weights are computed, and the weight of an edge between two weighted
\* words of two sentences is a quotient by the sum
C22_Witness ==
  /\ pc = "built"
  /\ \E e \in edges :
       /\ LabelWeight(e[1][1]) # 0
       /\ LabelWeight(e[2][1]) # 0
       /\ weight[e] # RZero
       /\ DiffSum(e[1], e[2], 0) = <<2, 1>>


\* ------------------------------------------------------ term statistics
\* the indices of the sentences that hold the label
SentencesWith(node) ==
  {s \in 0..(length - 1) : \E p \in 0..(SentenceLen(s) - 1) : TokLabel(s, p) = node}

\* C25: after compute_statistics the term_freq of a label is the number of
\* distinct sentences that hold the label, also when the label occurs
\* several times in one sentence.
C25_CountsSentences ==
  \A node \in DOMAIN term_freq : term_freq[node] = Cardinality(SentencesWith(node))


\* ------------------------------------------------- positions and nodes
\* the places <<node, index>> of the occurrence lists that record (s, p)
Records(s, p) ==
  {r \in UNION {{<<n, x>> : x \in 1..Len(info[n])} : n \in Nodes} : info[r[1]][r[2]] = <<s, p>>}

\* C26: when the passes over a sentence are done every position of it is
\* recorded once in the occurrence list of one node, which is mapping[j] and
\* bears the label of the token; when the graph is built this holds of every
\* position of every sentence.  It holds for a stopword list with a
\* punctuation mark too.
C26_EveryPositionOnce ==
  /\ pc = "edges" =>
       \A p \in 0..(SentenceLen(i) - 1) :
          /\ Cardinality(Records(i, p)) = 1
          /\ \A r \in Records(i, p) : r[1] = mapping[p + 1] /\ r[1][1] = TokLabel(i, p)
  /\ pc = "built" =>
       \A x \in Positions :
          /\ Cardinality(Records(x[1], x[2])) = 1
          /\ \A r \in Records(x[1], x[2]) : r[1][1] = TokLabel(x[1], x[2])


\* -------------------------------------------------- sentences as paths
\* the nodes whose occurrence list records the position (s, p)
NodesAt(s, p) == {n \in Nodes : \E x \in 1..Len(info[n]) : info[n][x] = <<s, p>>}

\* C27: after build_graph every sentence is a loop-free path of the graph:
\* the nodes of its positions are pairwise distinct, the nodes of two
\* consecutive positions are joined by an edge, its first node is the start
\* node of index 0 and its last node the end node of index 0; no edge joins
\* a node to itself.
C27_SentenceIsPath ==
  /\ pc = "edges" =>
       /\ mapping[1] = StartNode
       /\ mapping[Len(mapping)] = EndNode
       /\ \A a, b \in 1..Len(mapping) : a # b => mapping[a] # mapping[b]
  /\ pc \in {"built", "search", "done"} =>
       /\ \A s \in 0..(length - 1) :
            /\ NodesAt(s, 0) = {StartNode}
            /\ NodesAt(s, SentenceLen(s) - 1) = {EndNode}
            /\ \A p \in 0..(SentenceLen(s) - 2) :
                 \E n1 \in NodesAt(s, p), n2 \in NodesAt(s, p + 1) : <<n1, n2>> \in edges
            /\ \A p, q \in 0..(SentenceLen(s) - 1) :
                 p # q => NodesAt(s, p) \cap NodesAt(s, q) = {}
       /\ \A e \in edges : e[1] # e[2]


\* ------------------------------------------------- ties in the frontier
\* the entries of a frontier
Entries(l) == {l[n] : n \in 1..Len(l)}

\* the place of entry e in frontier l, which is popped from its front
Place(l, e) == CHOOSE n \in 1..Len(l) : l[n] = e

\* the entries there before a turn of the while loop and still there after
\* it, and those the turn put in
Older == Entries(orderedX) \cap Entries(orderedX')
Newer == Entries(orderedX') \ Entries(orderedX)

\* C24 as stated: of two frontier entries of equal cumulative weight the one
\* put in earlier is popped first, that is, a turn of the while loop puts no
\* entry before an entry of equal weight that was there already.
C24_EarlierInsertedFirst ==
  [][pc = "search" =>
       \A e \in Older, f \in Newer :
          e[1] = f[1] => Place(orderedX', e) < Place(orderedX', f)]_vars

\* C24: frontier entries of equal cumulative weight stand, and are popped,
\* in the order of their node keys (label, then variant index), whatever the
\* order they were put in; only of two entries of equal weight for one node
\* is the one put in earlier popped first.
C24_TiesByNodeKey ==
  [][pc = "search" =>
       /\ \A a, b \in 1..Len(orderedX') :
            (a < b /\ orderedX'[a][1] = orderedX'[b][1]) =>
               \/ LabelLt(orderedX'[a][2][1], orderedX'[b][2][1])
               \/ /\ orderedX'[a][2][1] = orderedX'[b][2][1]
                  /\ orderedX'[a][2][2] < orderedX'[b][2][2]
               \/ /\ orderedX'[a][2] = orderedX'[b][2]
                  /\ orderedX'[a][3] < orderedX'[b][3]
       /\ \A e \in Older, f \in Newer :
            (e[1] = f[1] /\ e[2] = f[2]) => Place(orderedX', e) < Place(orderedX', f)]_vars

\* the frontier holds three entries of one weight: two variants of a label
\* and, after them, a node of another label with a lower variant index
C24_Witness ==
  /\ pc = "search"
  /\ \E a, b, c \in 1..Len(orderedX) :
       /\ a < b /\ b < c
       /\ orderedX[a][1] = orderedX[c][1]
       /\ orderedX[b][1] = orderedX[c][1]
       /\ orderedX[a][2][1] = orderedX[b][2][1]
       /\ orderedX[b][2][1] # orderedX[c][2][1]
       /\ orderedX[c][2][2] < orderedX[b][2][2]


\* ------------------------------------------------------------- clusters
\* the places <<cluster, index>> at which the clusters hold the keyphrase
Memberships(keyphrase) ==
  {m \in UNION {{<<c, n>> : n \in 1..Len(Clusters[c])} : c \in DOMAIN Clusters} :
     Clusters[m[1]][m[2]] = keyphrase}

\* C23: when cluster_keyphrase_candidates has gone through the candidates,
\* every candidate is a member of exactly one cluster.
C23_ExactlyOneCluster ==
  pc = "cluster_keyphrase_candidates" =>
    \A keyphrase \in Keys(keyphrase_candidates) : Cardinality(Memberships(keyphrase)) = 1

====
